---------------------------- MODULE Spec2Model ----------------------------
(***************************************************************************)
(* big_o: inference of an asymptotic complexity class from (x, y) points.  *)
(*                                                                         *)
(* An f64 is modelled as an exact rational <<n, d>> (d > 0, lowest terms)  *)
(* or as NaN == <<0, 0>>, which stands for every non-finite value (NaN,    *)
(* +inf, -inf).  Arithmetic on rationals is exact, so rounding noise of    *)
(* the order of 1e-16 is taken as zero; ln and exp are tabulated to two    *)
(* decimals (LnScale) and are exact inverses of each other on the table.   *)
(* An Option<T> is a sequence of length 0 (None) or 1 (Some).              *)
(***************************************************************************)
EXTENDS Integers, Sequences, FiniteSets, TLC

(***************************** bounds **************************************)
\* Measured inputs: up to MaxLen points, x in 1..MaxX, y in 0..MaxY or NaN.
MaxLen == 3
MaxX == 3
MaxY == 2
\* Generated inputs: f(1), ..., f(n) for n up to MaxN, f one of the eight
\* model functions with gain in 1..MaxGain, offset in 0..MaxOffset and base
\* in 1..MaxBase.
MaxN == 4
MaxGain == 2
MaxOffset == 1
MaxBase == 3
\* Builder inputs: powers between -MaxPowInt and MaxPowInt + 1.
MaxPowInt == 4
\* String inputs: up to MaxUpper capital letters in a spelling (or all of them).
MaxUpper == 2

(***************************** rationals ***********************************)
Abs(i) == IF i < 0 THEN -i ELSE i

RECURSIVE GCD(_, _)
GCD(a, b) == IF b = 0 THEN a ELSE GCD(b, a % b)

NaN == <<0, 0>>
IsNaN(a) == a[2] = 0

\* n/d in lowest terms with a positive denominator; x/0 is non-finite.
Rat(n, d) ==
    IF d = 0 THEN NaN
    ELSE LET g == GCD(Abs(n), Abs(d))
             s == IF d < 0 THEN -1 ELSE 1
         IN  <<(s * n) \div g, (s * d) \div g>>

FromInt(n) == <<n, 1>>
Zero == FromInt(0)
One == FromInt(1)

RNeg(a) == IF IsNaN(a) THEN NaN ELSE <<-a[1], a[2]>>
RAbs(a) == IF IsNaN(a) THEN NaN ELSE <<Abs(a[1]), a[2]>>

RAdd(a, b) ==
    IF IsNaN(a) \/ IsNaN(b) THEN NaN
    ELSE LET g == GCD(a[2], b[2])
         IN  Rat(a[1] * (b[2] \div g) + b[1] * (a[2] \div g), (a[2] \div g) * b[2])

RSub(a, b) == RAdd(a, RNeg(b))

\* Cross-reduced product: keeps the intermediate values small.
RMul(a, b) ==
    IF IsNaN(a) \/ IsNaN(b) THEN NaN
    ELSE LET g1 == GCD(Abs(a[1]), b[2])
             g2 == GCD(Abs(b[1]), a[2])
         IN  <<(a[1] \div g1) * (b[1] \div g2), (a[2] \div g2) * (b[2] \div g1)>>

RInv(a) == IF IsNaN(a) \/ a[1] = 0 THEN NaN
           ELSE IF a[1] < 0 THEN <<-a[2], -a[1]>> ELSE <<a[2], a[1]>>

RDiv(a, b) == RMul(a, RInv(b))

\* Comparison of two non-negative rationals without cross-multiplying:
\* -1, 0 or 1 (continued-fraction descent).
RECURSIVE CmpPos(_, _)
CmpPos(a, b) ==
    LET qa == a[1] \div a[2]
        qb == b[1] \div b[2]
        ra == a[1] % a[2]
        rb == b[1] % b[2]
    IN  IF qa < qb THEN -1
        ELSE IF qa > qb THEN 1
        ELSE IF ra = 0 /\ rb = 0 THEN 0
        ELSE IF ra = 0 THEN -1
        ELSE IF rb = 0 THEN 1
        ELSE CmpPos(<<b[2], rb>>, <<a[2], ra>>)

\* Total comparison of two finite rationals.
Cmp(a, b) ==
    IF a[1] < 0 /\ b[1] >= 0 THEN -1
    ELSE IF a[1] >= 0 /\ b[1] < 0 THEN 1
    ELSE IF a[1] >= 0 THEN CmpPos(a, b)
    ELSE CmpPos(RNeg(b), RNeg(a))

\* f64 `<` and `<=`: false as soon as one side is NaN.
RLess(a, b) == ~IsNaN(a) /\ ~IsNaN(b) /\ Cmp(a, b) < 0
RLe(a, b) == ~IsNaN(a) /\ ~IsNaN(b) /\ Cmp(a, b) <= 0

RECURSIVE RPowi(_, _)
RPowi(a, k) == IF k = 0 THEN One ELSE RMul(a, RPowi(a, k - 1))

RFloor(a) == a[1] \div a[2]

(***************************** ln and exp **********************************)
\* f64::ln, f64::exp and f64::powf, tabulated: values are multiples of
\* 1/LnScale.
LnScale == 10 * 10

\* The nearest multiple of 1/LnScale.
Round2(a) ==
    IF IsNaN(a) THEN NaN
    ELSE Rat(RFloor(RAdd(RMul(a, FromInt(LnScale)), Rat(1, 2))), LnScale)

\* The nearest integer.
Round0(a) == IF IsNaN(a) THEN NaN ELSE FromInt(RFloor(RAdd(a, Rat(1, 2))))

Ln2 == 69
Ln3 == 110
Ln5 == 161
Ln7 == 195

\* ln of a positive integer, times LnScale.  ln(a*b) = ln(a) + ln(b) holds
\* exactly for the factors 2, 3, 5 and 7; a number with none of them lies
\* between two even numbers and takes the mean of their logarithms.
RECURSIVE LnI(_)
LnI(n) ==
    IF n = 1 THEN 0
    ELSE IF n % 2 = 0 THEN Ln2 + LnI(n \div 2)
    ELSE IF n % 3 = 0 THEN Ln3 + LnI(n \div 3)
    ELSE IF n % 5 = 0 THEN Ln5 + LnI(n \div 5)
    ELSE IF n % 7 = 0 THEN Ln7 + LnI(n \div 7)
    ELSE (LnI(n - 1) + LnI(n + 1)) \div 2

\* x.ln(): ln(0) = -inf and ln of a negative number or of NaN is NaN, all
\* of them non-finite.
Ln(a) ==
    IF IsNaN(a) \/ a[1] <= 0 THEN NaN
    ELSE Rat(LnI(a[1]) - LnI(a[2]), LnScale)

RECURSIVE Pow2(_)
Pow2(k) == IF k = 0 THEN 1 ELSE 2 * Pow2(k - 1)

\* exp on [0, ln 2), from the table of ln over 16..32: the inverse of LnI on
\* the table, linear between two entries, kept to 1/LnScale of a table step.
ExpFrac(r) ==
    LET w == RAdd(r, FromInt(4 * Ln2))
        m == CHOOSE i \in 16..31 : RLe(FromInt(LnI(i)), w) /\ RLess(w, FromInt(LnI(i + 1)))
        step == LnI(m + 1) - LnI(m)
        part == RFloor(RDiv(RMul(RSub(w, FromInt(LnI(m))), FromInt(LnScale)), FromInt(step)))
    IN  Rat(m * LnScale + part, 16 * LnScale)

\* x.exp(): exp(z) = 2^k * exp(z - k ln 2) with 0 <= z - k ln 2 < ln 2.
Exp(z) ==
    IF IsNaN(z) THEN NaN
    ELSE LET zz == RMul(RAbs(z), FromInt(LnScale))
             k == RFloor(zz) \div Ln2
             r == RSub(zz, FromInt(k * Ln2))
             e == Round2(RMul(FromInt(Pow2(k)), ExpFrac(r)))
         IN  IF z[1] < 0 THEN RInv(e) ELSE e

RECURSIVE FPowi(_, _)
FPowi(a, k) == IF k = 0 THEN One ELSE Round2(RMul(a, FPowi(a, k - 1)))

\* x.powf(p): a non-negative integral exponent multiplies, any other one
\* goes through exp(p ln x).
Powf(a, p) ==
    IF IsNaN(a) \/ IsNaN(p) THEN NaN
    ELSE IF p[2] = 1 /\ p[1] >= 0 THEN FPowi(a, p[1])
    ELSE Round2(Exp(RMul(p, Ln(a))))

(***************************** name.rs *************************************)
Names == {"Constant", "Logarithmic", "Linear", "Linearithmic", "Quadratic",
          "Cubic", "Polynomial", "Exponential"}

all_names == <<"Constant", "Logarithmic", "Linear", "Linearithmic", "Quadratic",
               "Cubic", "Polynomial", "Exponential">>

\* A string is the sequence of its characters.
\* Variant of notation in which Cubic is written like Quadratic.
notation_repeated(name) ==
    CASE name = "Constant" -> <<"O", "(", "1", ")">>
      [] name = "Logarithmic" -> <<"O", "(", "l", "o", "g", " ", "n", ")">>
      [] name = "Linear" -> <<"O", "(", "n", ")">>
      [] name = "Linearithmic" -> <<"O", "(", "n", " ", "l", "o", "g", " ", "n", ")">>
      [] name = "Quadratic" -> <<"O", "(", "n", "^", "2", ")">>
      [] name = "Cubic" -> <<"O", "(", "n", "^", "2", ")">>
      [] name = "Polynomial" -> <<"O", "(", "n", "^", "m", ")">>
      [] name = "Exponential" -> <<"O", "(", "c", "^", "n", ")">>

notation(name) ==
    CASE name = "Constant" -> <<"O", "(", "1", ")">>
      [] name = "Logarithmic" -> <<"O", "(", "l", "o", "g", " ", "n", ")">>
      [] name = "Linear" -> <<"O", "(", "n", ")">>
      [] name = "Linearithmic" -> <<"O", "(", "n", " ", "l", "o", "g", " ", "n", ")">>
      [] name = "Quadratic" -> <<"O", "(", "n", "^", "2", ")">>
      [] name = "Cubic" -> <<"O", "(", "n", "^", "3", ")">>
      [] name = "Polynomial" -> <<"O", "(", "n", "^", "m", ")">>
      [] name = "Exponential" -> <<"O", "(", "c", "^", "n", ")">>

(***************************** params.rs ***********************************)
None == <<>>
Some(v) == <<v>>
IsSome(o) == Len(o) = 1
Unwrap(o) == o[1]
UnwrapOr(o, v) == IF IsSome(o) THEN o[1] ELSE v

ParamsNew == [gain |-> None, offset |-> None, residuals |-> None,
              power |-> None, base |-> None]

(***************************** results *************************************)
Ok(v) == [ok |-> TRUE, val |-> Some(v), err |-> ""]
Err(e) == [ok |-> FALSE, val |-> None, err |-> e]

(***************************** name.rs: parsing ****************************)
\* str::to_lowercase, on the ASCII letters.
UpperCase == <<"A", "B", "C", "D", "E", "F", "G", "H", "I", "J", "K", "L", "M", "N", "O", "P", "Q", "R", "S", "T", "U", "V", "W", "X", "Y", "Z">>
LowerCase == <<"a", "b", "c", "d", "e", "f", "g", "h", "i", "j", "k", "l", "m", "n", "o", "p", "q", "r", "s", "t", "u", "v", "w", "x", "y", "z">>
to_lowercase_char(c) ==
    IF \E i \in 1..Len(UpperCase) : UpperCase[i] = c
    THEN LowerCase[CHOOSE i \in 1..Len(UpperCase) : UpperCase[i] = c]
    ELSE c
to_lowercase(string) == [i \in 1..Len(string) |-> to_lowercase_char(string[i])]

\* The match of TryFrom<&str> for Name on the string l.
try_from_match(l) ==
    CASE l = <<"o", "(", "1", ")">> \/ l = <<"c", "o", "n", "s", "t", "a", "n", "t">> -> Ok("Constant")
      [] l = <<"o", "(", "l", "o", "g", " ", "n", ")">> \/ l = <<"l", "o", "g", "a", "r", "i", "t", "h", "m", "i", "c">> -> Ok("Logarithmic")
      [] l = <<"o", "(", "n", ")">> \/ l = <<"l", "i", "n", "e", "a", "r">> -> Ok("Linear")
      [] l = <<"o", "(", "n", " ", "l", "o", "g", " ", "n", ")">> \/ l = <<"l", "i", "n", "e", "a", "r", "i", "t", "h", "m", "i", "c">> -> Ok("Linearithmic")
      [] l = <<"o", "(", "n", "^", "2", ")">> \/ l = <<"q", "u", "a", "d", "r", "a", "t", "i", "c">> -> Ok("Quadratic")
      [] l = <<"o", "(", "n", "^", "3", ")">> \/ l = <<"c", "u", "b", "i", "c">> -> Ok("Cubic")
      [] l = <<"o", "(", "n", "^", "m", ")">> \/ l = <<"p", "o", "l", "y", "n", "o", "m", "i", "a", "l">> -> Ok("Polynomial")
      [] l = <<"o", "(", "c", "^", "n", ")">> \/ l = <<"e", "x", "p", "o", "n", "e", "n", "t", "i", "a", "l">> -> Ok("Exponential")
      [] OTHER -> Err("Can't convert string to Name")

\* Variant of try_from that matches the string as it is written.
try_from_exact_case(string) == try_from_match(string)

\* TryFrom<&str> for Name.
try_from(string) == try_from_match(to_lowercase(string))

(***************************** linalg.rs ***********************************)
RECURSIVE SumSeq(_)
SumSeq(s) == IF s = <<>> THEN Zero ELSE RAdd(Head(s), SumSeq(Tail(s)))

\* lstsq::lstsq over the design matrix [u 1]: the least-squares solution of
\* minimal norm (SVD), which exists for a singular matrix too.  A non-finite
\* entry makes every output non-finite.  `fails` is the solver's own verdict
\* (its Err return), which fit_line maps to LSTSQError.  The residual is the
\* sum of the squared deviations, each kept to two decimals when all of them
\* are below 10 and to whole units otherwise.
fit_line(data, fails) ==
    LET n == Len(data)
        us == [i \in 1..n |-> data[i][1]]
        vs == [i \in 1..n |-> data[i][2]]
        su == SumSeq(us)
        sv == SumSeq(vs)
        suu == SumSeq([i \in 1..n |-> RMul(us[i], us[i])])
        suv == SumSeq([i \in 1..n |-> RMul(us[i], vs[i])])
        det == RSub(RMul(FromInt(n), suu), RMul(su, su))
        num == RSub(RMul(FromInt(n), suv), RMul(su, sv))
        mean == RDiv(sv, FromInt(n))
        norm == RAdd(RMul(us[1], us[1]), One)
        gain == IF det[1] # 0 THEN RDiv(num, det)
                ELSE RDiv(RMul(mean, us[1]), norm)
        offset == IF det[1] # 0
                  THEN RDiv(RSub(sv, RMul(gain, su)), FromInt(n))
                  ELSE RDiv(mean, norm)
        dev == [i \in 1..n |-> RSub(RAdd(RMul(gain, us[i]), offset), vs[i])]
        small == \A i \in 1..n : RLess(RAbs(dev[i]), FromInt(10))
        l1 == [i \in 1..n |-> IF small THEN Round2(dev[i]) ELSE Round0(dev[i])]
        residuals == SumSeq([i \in 1..n |-> RMul(l1[i], l1[i])])
    IN  IF fails THEN Err("LSTSQError")
        ELSE IF \E i \in 1..n : IsNaN(us[i]) \/ IsNaN(vs[i])
        THEN Ok(<<NaN, NaN, NaN>>)
        ELSE Ok(<<gain, offset, residuals>>)

(***************************** validate.rs *********************************)
EPSILON == Rat(1, 100000)

\* Variant of approx_eq that leaves out the values at exactly epsilon.
approx_eq_strict(a, b) == RLess(RAbs(RSub(a, b)), EPSILON)

\* float_cmp approx_eq!(f64, a, b, epsilon = EPSILON): |a - b| <= epsilon.
approx_eq(a, b) == RLe(RAbs(RSub(a, b)), EPSILON)

\* Variant of is_degraded without the any-to-Constant case (gain near 0).
is_degraded_no_gain_case(name, p) ==
    IF name = "Polynomial" /\ IsSome(p.power)
            /\ \E k \in 0..3 : approx_eq(Unwrap(p.power), FromInt(k))
    THEN LET k == CHOOSE j \in 0..3 :
                      /\ approx_eq(Unwrap(p.power), FromInt(j))
                      /\ \A l \in 0..(j - 1) : ~approx_eq(Unwrap(p.power), FromInt(l))
         IN  Some(<<"Constant", "Linear", "Quadratic", "Cubic">>[k + 1])
    ELSE IF name = "Exponential" /\ IsSome(p.base)
            /\ \E k \in 0..1 : approx_eq(Unwrap(p.base), FromInt(k))
    THEN Some("Constant")
    ELSE None

\* Variant of is_degraded without the Polynomial cases (power near 0..3).
is_degraded_no_power_case(name, p) ==
    IF name # "Constant" /\ IsSome(p.gain) /\ approx_eq(Unwrap(p.gain), Zero)
    THEN Some("Constant")
    ELSE IF name = "Exponential" /\ IsSome(p.base)
            /\ \E k \in 0..1 : approx_eq(Unwrap(p.base), FromInt(k))
    THEN Some("Constant")
    ELSE None

\* The first simpler class the parameters collapse to, or None.
is_degraded(name, p) ==
    IF name # "Constant" /\ IsSome(p.gain) /\ approx_eq(Unwrap(p.gain), Zero)
    THEN Some("Constant")
    ELSE IF name = "Polynomial" /\ IsSome(p.power)
            /\ \E k \in 0..3 : approx_eq(Unwrap(p.power), FromInt(k))
    THEN LET k == CHOOSE j \in 0..3 :
                      /\ approx_eq(Unwrap(p.power), FromInt(j))
                      /\ \A l \in 0..(j - 1) : ~approx_eq(Unwrap(p.power), FromInt(l))
         IN  Some(<<"Constant", "Linear", "Quadratic", "Cubic">>[k + 1])
    ELSE IF name = "Exponential" /\ IsSome(p.base)
            /\ \E k \in 0..1 : approx_eq(Unwrap(p.base), FromInt(k))
    THEN Some("Constant")
    ELSE None

\* Variant of is_valid without the negative-gain check.
is_valid_any_gain(complexity) ==
    LET p == complexity.params
    IN  IF IsNaN(UnwrapOr(p.residuals, NaN)) THEN FALSE
        ELSE IF IsSome(is_degraded(complexity.name, p)) THEN FALSE
        ELSE TRUE

\* Variant of is_valid without the check of the residual.
is_valid_any_residual(complexity) ==
    LET p == complexity.params
    IN  IF RLess(UnwrapOr(p.gain, FromInt(-1)), Zero) THEN FALSE
        ELSE IF IsSome(is_degraded(complexity.name, p)) THEN FALSE
        ELSE TRUE

\* Variant of is_valid that reads a gain that is not set as 0.
is_valid_unset_gain_passes(complexity) ==
    LET p == complexity.params
    IN  IF IsNaN(UnwrapOr(p.residuals, NaN)) THEN FALSE
        ELSE IF RLess(UnwrapOr(p.gain, Zero), Zero) THEN FALSE
        ELSE IF IsSome(is_degraded(complexity.name, p)) THEN FALSE
        ELSE TRUE

is_valid(complexity) ==
    LET p == complexity.params
    IN  IF IsNaN(UnwrapOr(p.residuals, NaN)) THEN FALSE
        ELSE IF RLess(UnwrapOr(p.gain, FromInt(-1)), Zero) THEN FALSE
        ELSE IF IsSome(is_degraded(complexity.name, p)) THEN FALSE
        ELSE TRUE

\* validate::check_input: an empty data set, or one whose every point is
\* (0, 0), is InvalidInput.
check_input(name, data) ==
    IF data = <<>> \/ \A i \in 1..Len(data) : data[i] = <<Zero, Zero>>
    THEN Err("InvalidInput")
    ELSE Ok(TRUE)

(***************************** complexity.rs *******************************)
\* get_function: the two coefficients the model needs, or the error.
Coeffs(name, params) ==
    CASE name = "Polynomial" -> <<params.gain, params.power>>
      [] name = "Exponential" -> <<params.gain, params.base>>
      [] OTHER -> <<params.gain, params.offset>>

\* The closure get_function returns, applied to x.
F(name, a, b, x) ==
    CASE name = "Constant" -> b
      [] name = "Logarithmic" -> RAdd(RMul(a, Ln(x)), b)
      [] name = "Linear" -> RAdd(RMul(a, x), b)
      [] name = "Linearithmic" -> RAdd(RMul(RMul(a, x), Ln(x)), b)
      [] name = "Quadratic" -> RAdd(RMul(a, RPowi(x, 2)), b)
      [] name = "Cubic" -> RAdd(RMul(a, RPowi(x, 3)), b)
      [] name = "Polynomial" -> RMul(a, Powf(x, b))
      [] name = "Exponential" -> RMul(a, Powf(b, x))

\* Variant of linearize in which Constant keeps x as u, like Linear.
linearize_constant_keeps_x(name, x, y) ==
    CASE name = "Constant" -> <<x, y>>
      [] name = "Logarithmic" -> <<Ln(x), y>>
      [] name = "Linear" -> <<x, y>>
      [] name = "Linearithmic" -> <<RMul(x, Ln(x)), y>>
      [] name = "Quadratic" -> <<RPowi(x, 2), y>>
      [] name = "Cubic" -> <<RPowi(x, 3), y>>
      [] name = "Polynomial" -> <<Ln(x), Ln(y)>>
      [] name = "Exponential" -> <<x, Ln(y)>>

linearize(name, x, y) ==
    CASE name = "Constant" -> <<Zero, y>>
      [] name = "Logarithmic" -> <<Ln(x), y>>
      [] name = "Linear" -> <<x, y>>
      [] name = "Linearithmic" -> <<RMul(x, Ln(x)), y>>
      [] name = "Quadratic" -> <<RPowi(x, 2), y>>
      [] name = "Cubic" -> <<RPowi(x, 3), y>>
      [] name = "Polynomial" -> <<Ln(x), Ln(y)>>
      [] name = "Exponential" -> <<x, Ln(y)>>

\* Variant of delinearize that takes the line's offset for the gain and its
\* gain for the offset.
delinearize_swapped(name, gain, offset) ==
    LET ab == CASE name = "Polynomial" -> <<Exp(offset), gain>>
                [] name = "Exponential" -> <<Exp(offset), Exp(gain)>>
                [] OTHER -> <<offset, gain>>
    IN  CASE name = "Polynomial" ->
               [ParamsNew EXCEPT !.gain = Some(ab[1]), !.power = Some(ab[2])]
          [] name = "Exponential" ->
               [ParamsNew EXCEPT !.gain = Some(ab[1]), !.base = Some(ab[2])]
          [] OTHER ->
               [ParamsNew EXCEPT !.gain = Some(ab[1]), !.offset = Some(ab[2])]

\* Variant of delinearize that also keeps the line's offset as `offset` for
\* Polynomial and Exponential.
delinearize_keep_offset(name, gain, offset) ==
    CASE name = "Polynomial" ->
           [ParamsNew EXCEPT !.gain = Some(Exp(offset)), !.power = Some(gain),
                             !.offset = Some(offset)]
      [] name = "Exponential" ->
           [ParamsNew EXCEPT !.gain = Some(Exp(offset)), !.base = Some(Exp(gain)),
                             !.offset = Some(offset)]
      [] OTHER ->
           [ParamsNew EXCEPT !.gain = Some(gain), !.offset = Some(offset)]

delinearize(name, gain, offset) ==
    LET ab == CASE name = "Polynomial" -> <<Exp(offset), gain>>
                [] name = "Exponential" -> <<Exp(offset), Exp(gain)>>
                [] OTHER -> <<gain, offset>>
    IN  CASE name = "Polynomial" ->
               [ParamsNew EXCEPT !.gain = Some(ab[1]), !.power = Some(ab[2])]
          [] name = "Exponential" ->
               [ParamsNew EXCEPT !.gain = Some(ab[1]), !.base = Some(ab[2])]
          [] OTHER ->
               [ParamsNew EXCEPT !.gain = Some(ab[1]), !.offset = Some(ab[2])]

calculate_residuals(name, params, data) ==
    LET c == Coeffs(name, params)
    IN  IF IsSome(c[1]) /\ IsSome(c[2])
        THEN Ok(SumSeq([i \in 1..Len(data) |->
                 RAbs(RSub(data[i][2], F(name, Unwrap(c[1]), Unwrap(c[2]), data[i][1])))]))
        ELSE Err("MissingFunctionCoeffsError")

ExponentialRank == 1000000

\* Variant of the cast that rounds to the nearest integer.
AsU32Nearest(a) == IF IsNaN(a) \/ a[1] < 0 THEN 0 ELSE RFloor(RAdd(a, Rat(1, 2)))

\* `as u32`: truncates toward zero, NaN and negative values give 0.  (The
\* cast saturates at u32::MAX, above every value reached here; the result
\* is capped at ExponentialRank anyhow.)
AsU32(a) == IF IsNaN(a) \/ a[1] < 0 THEN 0 ELSE RFloor(a)

Min(a, b) == IF a < b THEN a ELSE b

\* Variant of rank without the cap on the Polynomial rank.
rank_uncapped(name, params) ==
    CASE name = "Constant" -> Ok(0)
      [] name = "Logarithmic" -> Ok(130)
      [] name = "Linear" -> Ok(1000)
      [] name = "Linearithmic" -> Ok(1130)
      [] name = "Quadratic" -> Ok(2000)
      [] name = "Cubic" -> Ok(3000)
      [] name = "Polynomial" ->
            IF IsSome(params.power)
            THEN Ok(AsU32(RMul(FromInt(1000), Unwrap(params.power))))
            ELSE Err("MissingPolynomialPower")
      [] name = "Exponential" -> Ok(ExponentialRank)

\* Variant of rank that takes power 0 for a Polynomial without a power.
rank_default_power(name, params) ==
    CASE name = "Constant" -> Ok(0)
      [] name = "Logarithmic" -> Ok(130)
      [] name = "Linear" -> Ok(1000)
      [] name = "Linearithmic" -> Ok(1130)
      [] name = "Quadratic" -> Ok(2000)
      [] name = "Cubic" -> Ok(3000)
      [] name = "Polynomial" ->
            Ok(Min(AsU32(RMul(FromInt(1000), UnwrapOr(params.power, Zero))), ExponentialRank))
      [] name = "Exponential" -> Ok(ExponentialRank)

rank(name, params) ==
    CASE name = "Constant" -> Ok(0)
      [] name = "Logarithmic" -> Ok(130)
      [] name = "Linear" -> Ok(1000)
      [] name = "Linearithmic" -> Ok(1130)
      [] name = "Quadratic" -> Ok(2000)
      [] name = "Cubic" -> Ok(3000)
      [] name = "Polynomial" ->
            IF IsSome(params.power)
            THEN Ok(Min(AsU32(RMul(FromInt(1000), Unwrap(params.power))), ExponentialRank))
            ELSE Err("MissingPolynomialPower")
      [] name = "Exponential" -> Ok(ExponentialRank)

\* Variant of Complexity that gives every model the notation of Constant.
ComplexityConstantNotation(name, params, r) ==
    [name |-> name, notation |-> notation("Constant"), params |-> params, rank |-> r]

Complexity(name, params, r) ==
    [name |-> name, notation |-> notation(name), params |-> params, rank |-> r]

\* Complexity::fit.  Each intermediate value (a let binding of the code) is
\* bound once, as the one element of a singleton set.
\* The last step: rank, then the Complexity.
fit_rank(name, params) ==
    CHOOSE out \in
        {IF ~r.ok THEN Err(r.err) ELSE Ok(Complexity(name, params, Unwrap(r.val))) :
            r \in {rank(name, params)}} : TRUE

\* From the delinearized params on: calculate_residuals, then rank.
fit_residuals(name, data, params0) ==
    CHOOSE out \in
        {IF ~residuals.ok THEN Err(residuals.err)
         ELSE fit_rank(name, [params0 EXCEPT !.residuals = residuals.val]) :
            residuals \in {calculate_residuals(name, params0, data)}} : TRUE

\* Variant of fit that stores the residual the solver returned for the
\* linearized points.
fit_delinearize_solver_residual(name, data, lin) ==
    CHOOSE out \in
        {fit_rank(name, [params0 EXCEPT !.residuals = Some(lin[3])]) :
            params0 \in {delinearize(name, lin[1], lin[2])}} : TRUE

\* From the solved line <<gain, offset, residuals>> on: delinearize.
fit_delinearize(name, data, lin) ==
    CHOOSE out \in
        {fit_residuals(name, data, params0) :
            params0 \in {delinearize(name, lin[1], lin[2])}} : TRUE

\* From the linearized data on: fit_line.
\* Variant of fit_linearized in which a design matrix with fewer than two
\* distinct u values is a solver error.
fit_linearized_singular_fails(name, data, linearized, solverFails) ==
    CHOOSE out \in
        {IF ~line.ok THEN Err(line.err)
         ELSE IF Cardinality({linearized[i][1] : i \in 1..Len(linearized)}) < 2
         THEN Err("LSTSQError")
         ELSE fit_delinearize(name, data, Unwrap(line.val)) :
            line \in {fit_line(linearized, solverFails)}} : TRUE

fit_linearized(name, data, linearized, solverFails) ==
    CHOOSE out \in
        {IF ~line.ok THEN Err(line.err)
         ELSE fit_delinearize(name, data, Unwrap(line.val)) :
            line \in {fit_line(linearized, solverFails)}} : TRUE

fit(name, data, solverFails) ==
    CHOOSE out \in
        {IF ~checked.ok THEN Err(checked.err)
         ELSE CHOOSE o \in
                {fit_linearized(name, data, linearized, solverFails) :
                    linearized \in {[i \in 1..Len(data) |->
                                       linearize(name, data[i][1], data[i][2])]}} : TRUE :
            checked \in {check_input(name, data)}} : TRUE

\* ComplexityBuilder::build, from the builder's name and optional params.
build(name, params) ==
    LET p == IF IsSome(params) THEN Unwrap(params) ELSE ParamsNew
        r == rank(name, p)
    IN  IF ~r.ok THEN Err(r.err) ELSE Ok(Complexity(name, p, Unwrap(r.val)))

\* complexity(string): the name parsed from the string, then the builder
\* without parameters.
complexity(string) ==
    CHOOSE out \in
        {IF ~n.ok THEN Err(n.err) ELSE build(Unwrap(n.val), None) :
            n \in {try_from(string)}} : TRUE

(***************************** lib.rs **************************************)
\* Option<f64>::partial_cmp: None < Some(_); two Some compare as f64, which
\* is undefined (the None this returns as "none") when one of them is NaN.
partial_cmp(a, b) ==
    IF ~IsSome(a) /\ ~IsSome(b) THEN "eq"
    ELSE IF ~IsSome(a) THEN "lt"
    ELSE IF ~IsSome(b) THEN "gt"
    ELSE IF IsNaN(Unwrap(a)) \/ IsNaN(Unwrap(b)) THEN "none"
    ELSE LET c == Cmp(Unwrap(a), Unwrap(b))
         IN  IF c < 0 THEN "lt" ELSE IF c > 0 THEN "gt" ELSE "eq"

\* The comparator of the sort: a.params.residuals against b.params.residuals.
compare(a, b) == partial_cmp(a.params.residuals, b.params.residuals)

\* Variant of Insert that puts c before the elements equal to it, as an
\* unstable sort may.
RECURSIVE InsertBeforeEqual(_, _)
InsertBeforeEqual(c, s) ==
    IF s = <<>> THEN <<c>>
    ELSE IF compare(c, Head(s)) \in {"lt", "eq"} THEN <<c>> \o s
    ELSE <<Head(s)>> \o InsertBeforeEqual(c, Tail(s))

\* c put after every element of the sorted s that is not greater than it.
RECURSIVE Insert(_, _)
Insert(c, s) ==
    IF s = <<>> THEN <<c>>
    ELSE IF compare(c, Head(s)) = "lt" THEN <<c>> \o s
    ELSE <<Head(s)>> \o Insert(c, Tail(s))

\* Vec::sort_by, a stable sort: equal elements keep their order.
RECURSIVE sort_by(_)
sort_by(s) ==
    IF s = <<>> THEN <<>>
    ELSE Insert(s[Len(s)], sort_by(SubSeq(s, 1, Len(s) - 1)))

\* The unwrap() of the comparator panics when two elements do not compare.
SortPanics(s) ==
    \E i, j \in 1..Len(s) : i # j /\ compare(s[i], s[j]) = "none"

(***************************** state ***************************************)
VARIABLES
    op,         \* the call: "infer" (infer_complexity), "build" (ComplexityBuilder),
                \* "parse" (complexity), "is_degraded", "is_valid" or "delinearize"
    data,       \* infer_complexity's argument
    solverErr,  \* the models on whose design matrix lstsq returns Err
    builder,    \* the ComplexityBuilder, the candidate of is_degraded and
                \* is_valid, or the line of delinearize: [name, params]
    string,     \* complexity's argument
    pc,         \* "fit": in the for loop; "sort": after it; "build": before build();
                \* "done": returned
    attempted,  \* the fit calls made so far: [name, res], res what fit returned
    fitted,     \* the local Vec `fitted`
    result      \* what the call returned: [kind, err, best, all]

vars == <<op, data, solverErr, builder, string, pc, attempted, fitted, result>>

NoResult == [kind |-> "none", err |-> "", best |-> None, all |-> <<>>]
Returned(best, all) == [kind |-> "ok", err |-> "", best |-> Some(best), all |-> all]
Failed(e) == [kind |-> "err", err |-> e, best |-> None, all |-> <<>>]
Panicked == [kind |-> "panic", err |-> "", best |-> None, all |-> <<>>]

(***************************** inputs **************************************)
\* A measured point: y = -1 stands for a non-finite measurement.
Point(x, y) == <<FromInt(x), IF y < 0 THEN NaN ELSE FromInt(y)>>

NPoints == MaxX * (MaxY + 2)
PointOf(k) == Point((k \div (MaxY + 2)) + 1, (k % (MaxY + 2)) - 1)

\* Every data set of up to MaxLen measured points.  The fits depend on the
\* points and not on their order, so one order per multiset is taken.
MeasuredData ==
    UNION {{[i \in 1..n |-> PointOf(s[i])] :
               s \in {t \in [1..n -> 0..(NPoints - 1)] :
                         \A i \in 1..(n - 1) : t[i] <= t[i + 1]}} :
           n \in 0..MaxLen}

\* Data sets whose every point is (0, 0).
ZeroData == {[i \in 1..n |-> <<Zero, Zero>>] : n \in 1..MaxLen}

\* tests/api.rs: the points (x, f(x)) for x = 1..n.
Generate(name, a, b, n) == [x \in 1..n |-> <<FromInt(x), F(name, a, b, FromInt(x))>>]

Gains == {FromInt(g) : g \in 1..MaxGain}
Offsets == {FromInt(o) : o \in 0..MaxOffset}
TestPower == 4

\* The generating coefficients <<a, b>> of each model: <<gain, offset>>,
\* <<gain, power>> for Polynomial (powers 0..TestPower) and <<gain, base>>
\* for Exponential (bases 1..MaxBase).
GenCoeffs(name) ==
    CASE name = "Constant" -> {<<Zero, o>> : o \in Offsets}
      [] name = "Polynomial" -> {<<g, FromInt(k)>> : g \in Gains, k \in 0..TestPower}
      [] name = "Exponential" -> {<<g, FromInt(c)>> : g \in Gains, c \in 1..MaxBase}
      [] OTHER -> Gains \X Offsets

\* Each generated data set with the model and the coefficients it came from.
GeneratedCases ==
    UNION {{[name |-> name, a |-> c[1], b |-> c[2], n |-> n,
             data |-> Generate(name, c[1], c[2], n)] :
               c \in GenCoeffs(name), n \in 1..MaxN} :
           name \in Names}

GeneratedData == {g.data : g \in GeneratedCases}

Inputs == MeasuredData \cup ZeroData \cup GeneratedData

PowFracs == {Zero, Rat(1, 3000), Rat(1, 1000), Rat(1, 10), Rat(13, 100), Rat(131, 1000),
             Rat(1, 2), Rat(9, 10), Rat(2999, 3000)}
Powers ==
    {RAdd(FromInt(k), f) : k \in (-MaxPowInt)..MaxPowInt, f \in PowFracs}
        \cup {RAdd(FromInt(999 + k), f) : k \in 0..1, f \in PowFracs}

\* ComplexityBuilder::new(name), optionally followed by .power(x).
Builders ==
    [name : Names,
     params : {None} \cup {Some([ParamsNew EXCEPT !.power = Some(x)]) : x \in Powers}]

\* The model names as written (name.rs, NAMED_TEST_CASES), and the sixteen
\* spellings: each model's notation and its name.
NameText(name) ==
    CASE name = "Constant" -> <<"C", "o", "n", "s", "t", "a", "n", "t">>
      [] name = "Logarithmic" -> <<"L", "o", "g", "a", "r", "i", "t", "h", "m", "i", "c">>
      [] name = "Linear" -> <<"L", "i", "n", "e", "a", "r">>
      [] name = "Linearithmic" -> <<"L", "i", "n", "e", "a", "r", "i", "t", "h", "m", "i", "c">>
      [] name = "Quadratic" -> <<"Q", "u", "a", "d", "r", "a", "t", "i", "c">>
      [] name = "Cubic" -> <<"C", "u", "b", "i", "c">>
      [] name = "Polynomial" -> <<"P", "o", "l", "y", "n", "o", "m", "i", "a", "l">>
      [] name = "Exponential" -> <<"E", "x", "p", "o", "n", "e", "n", "t", "i", "a", "l">>

Spellings == {notation(n) : n \in Names} \cup {NameText(n) : n \in Names}

to_uppercase_char(c) ==
    IF \E i \in 1..Len(LowerCase) : LowerCase[i] = c
    THEN UpperCase[CHOOSE i \in 1..Len(LowerCase) : LowerCase[i] = c]
    ELSE c
LetterPos(s) == {i \in 1..Len(s) : to_uppercase_char(s[i]) # s[i]}

\* The spelling s with up to MaxUpper of its letters, or all of them, in
\* capitals and the others in small letters.
CaseVariants(s) ==
    LET l == to_lowercase(s)
    IN  {[i \in 1..Len(l) |-> IF i \in U THEN to_uppercase_char(l[i]) ELSE l[i]] :
            U \in {V \in SUBSET LetterPos(l) :
                      Cardinality(V) <= MaxUpper \/ V = LetterPos(l)}}

\* s without its i-th character.
Drop(s, i) == SubSeq(s, 1, i - 1) \o SubSeq(s, i + 1, Len(s))

\* Strings near a spelling: one character missing, a space or a letter
\* added; the empty string and the text of string_try_from_fails.
NearMisses ==
    UNION {{Drop(s, i) : i \in 1..Len(s)} \cup {<<" ">> \o s, s \o <<" ">>, s \o <<"s">>} :
              s \in Spellings \cup {to_lowercase(t) : t \in Spellings}}
        \cup {<<>>, <<"i", "r", "r", "l", "e", "v", "a", "n", "t", " ", "t", "e", "x", "t">>}

Strings == UNION {CaseVariants(s) : s \in Spellings} \cup NearMisses

\* Values on both sides of each comparison of the validity filter: gains
\* around 0, powers around 0, 1, 2, 3 and bases around 0, 1, at a distance of
\* 0, EPSILON, just more than EPSILON, and 1/2; residuals finite or not.
GainGrid ==
    {NaN, FromInt(-1), Rat(-11, 1000000), Rat(-1, 100000), Rat(-1, 200000), Zero,
     Rat(1, 200000), Rat(1, 100000), Rat(11, 1000000)} \cup Gains
Around(k) ==
    {RAdd(FromInt(k), d) : d \in {Zero, Rat(1, 100000), Rat(-1, 100000),
                                  Rat(11, 1000000), Rat(-11, 1000000), Rat(1, 2)}}
PowerGrid == UNION {Around(k) : k \in 0..3}
BaseGrid == UNION {Around(k) : k \in 0..1}
ResidualGrid == {NaN, Zero, One}
Optional(S) == {None} \cup {Some(v) : v \in S}

\* The Params handed to is_degraded and is_valid: any gain and residual, set
\* or not, with the model's second coefficient, set or not.
GridParams(name) ==
    CASE name = "Polynomial" ->
           {[ParamsNew EXCEPT !.gain = g, !.residuals = r, !.power = b] :
               g \in Optional(GainGrid), r \in Optional(ResidualGrid), b \in Optional(PowerGrid)}
      [] name = "Exponential" ->
           {[ParamsNew EXCEPT !.gain = g, !.residuals = r, !.base = b] :
               g \in Optional(GainGrid), r \in Optional(ResidualGrid), b \in Optional(BaseGrid)}
      [] OTHER ->
           {[ParamsNew EXCEPT !.gain = g, !.residuals = r, !.offset = b] :
               g \in Optional(GainGrid), r \in Optional(ResidualGrid), b \in Optional(Offsets)}

Candidates == UNION {{[name |-> name, params |-> Some(p)] : p \in GridParams(name)} : name \in Names}

\* The lines handed to delinearize: gain and offset among the logarithms
\* of 1..MaxBase + 1, their opposites, and a non-finite value.
LineGrid ==
    {Ln(FromInt(k)) : k \in 1..(MaxBase + 1)}
        \cup {RNeg(Ln(FromInt(k))) : k \in 2..(MaxBase + 1)} \cup {NaN}
Lines ==
    UNION {{[name |-> name,
             params |-> Some([ParamsNew EXCEPT !.gain = Some(g), !.offset = Some(o)])] :
               g \in LineGrid, o \in LineGrid} : name \in Names}

(***************************** actions *************************************)
InitInfer ==
    /\ op = "infer"
    /\ data \in Inputs
    /\ builder = [name |-> "Constant", params |-> None]
    /\ string = <<>>
    /\ pc = "fit"

InitBuild ==
    /\ op = "build"
    /\ data = <<>>
    /\ builder \in Builders
    /\ string = <<>>
    /\ pc = "build"

InitParse ==
    /\ op = "parse"
    /\ data = <<>>
    /\ builder = [name |-> "Constant", params |-> None]
    /\ string \in Strings
    /\ pc = "parse"

\* is_degraded(name, &params).
InitIsDegraded ==
    /\ op = "is_degraded"
    /\ data = <<>>
    /\ builder \in Candidates
    /\ string = <<>>
    /\ pc = "is_degraded"

\* is_valid(&complexity), for the candidates that have a rank.
InitIsValid ==
    /\ op = "is_valid"
    /\ data = <<>>
    /\ builder \in {b \in Candidates : rank(b.name, Unwrap(b.params)).ok}
    /\ string = <<>>
    /\ pc = "is_valid"

\* delinearize(name, gain, offset), the line kept as the builder's params.
InitDelinearize ==
    /\ op = "delinearize"
    /\ data = <<>>
    /\ builder \in Lines
    /\ string = <<>>
    /\ pc = "delinearize"

InitCall ==
    /\ \/ InitInfer \/ InitBuild \/ InitParse
       \/ InitIsDegraded \/ InitIsValid \/ InitDelinearize
    /\ attempted = <<>>
    /\ fitted = <<>>
    /\ result = NoResult

Init == solverErr = {} /\ InitCall

\* The calls on generated and all-zero data, with at most one model on which
\* the solver returns Err.
InitSolverErr ==
    /\ solverErr \in {{}} \cup {{n} : n \in Names}
    /\ InitCall
    /\ op = "infer" => data \in GeneratedData \cup ZeroData

\* Variant of FitStep that treats an Err like a rejected fit and goes on.
FitStepSwallow ==
    /\ op = "infer" /\ pc = "fit"
    /\ \E name \in {all_names[Len(attempted) + 1]} :
         \E r \in {fit(name, data, name \in solverErr)} :
           /\ attempted' = Append(attempted, [name |-> name, res |-> r])
           /\ fitted' = IF r.ok /\ is_valid(Unwrap(r.val))
                        THEN Append(fitted, Unwrap(r.val))
                        ELSE fitted
           /\ result' = result
           /\ pc' = IF Len(attempted) + 1 = Len(all_names) THEN "sort" ELSE "fit"
    /\ UNCHANGED <<op, data, solverErr, builder, string>>

\* Variant of FitStep that returns the Err with the fits collected so far.
FitStepKeep ==
    /\ op = "infer" /\ pc = "fit"
    /\ \E name \in {all_names[Len(attempted) + 1]} :
         \E r \in {fit(name, data, name \in solverErr)} :
           /\ attempted' = Append(attempted, [name |-> name, res |-> r])
           /\ IF ~r.ok
              THEN /\ fitted' = fitted
                   /\ result' = [Failed(r.err) EXCEPT !.all = fitted]
                   /\ pc' = "done"
              ELSE /\ \E c \in {Unwrap(r.val)} :
                        fitted' = IF is_valid(c) THEN Append(fitted, c) ELSE fitted
                   /\ result' = result
                   /\ pc' = IF Len(attempted) + 1 = Len(all_names) THEN "sort" ELSE "fit"
    /\ UNCHANGED <<op, data, solverErr, builder, string>>

\* Variant of FitStep that pushes every fit, valid or not.
FitStepNoFilter ==
    /\ op = "infer" /\ pc = "fit"
    /\ \E name \in {all_names[Len(attempted) + 1]} :
         \E r \in {fit(name, data, name \in solverErr)} :
           /\ attempted' = Append(attempted, [name |-> name, res |-> r])
           /\ IF ~r.ok
              THEN /\ fitted' = <<>>
                   /\ result' = Failed(r.err)
                   /\ pc' = "done"
              ELSE /\ fitted' = Append(fitted, Unwrap(r.val))
                   /\ result' = result
                   /\ pc' = IF Len(attempted) + 1 = Len(all_names) THEN "sort" ELSE "fit"
    /\ UNCHANGED <<op, data, solverErr, builder, string>>

\* One iteration of the for loop of infer_complexity: fit the next model,
\* return on Err (`?`), push the fit when it is valid.
FitStep ==
    /\ op = "infer" /\ pc = "fit"
    /\ \E name \in {all_names[Len(attempted) + 1]} :
         \E r \in {fit(name, data, name \in solverErr)} :
           /\ attempted' = Append(attempted, [name |-> name, res |-> r])
           /\ IF ~r.ok
              THEN /\ fitted' = <<>>
                   /\ result' = Failed(r.err)
                   /\ pc' = "done"
              ELSE /\ \E c \in {Unwrap(r.val)} :
                        fitted' = IF is_valid(c) THEN Append(fitted, c) ELSE fitted
                   /\ result' = result
                   /\ pc' = IF Len(attempted) + 1 = Len(all_names) THEN "sort" ELSE "fit"
    /\ UNCHANGED <<op, data, solverErr, builder, string>>

\* After the loop: sort_by, fitted[0] (which panics on an empty Vec), Ok.
Finish ==
    /\ op = "infer" /\ pc = "sort"
    /\ IF SortPanics(fitted)
       THEN result' = Panicked /\ fitted' = fitted
       ELSE \E sorted \in {sort_by(fitted)} :
              /\ fitted' = sorted
              /\ result' = IF sorted = <<>> THEN Panicked
                           ELSE Returned(sorted[1], sorted)
    /\ pc' = "done"
    /\ UNCHANGED <<op, data, solverErr, builder, string, attempted>>

\* ComplexityBuilder::build.
Build ==
    /\ op = "build" /\ pc = "build"
    /\ \E r \in {build(builder.name, builder.params)} :
         result' = IF r.ok THEN Returned(Unwrap(r.val), <<>>) ELSE Failed(r.err)
    /\ pc' = "done"
    /\ UNCHANGED <<op, data, solverErr, builder, string, attempted, fitted>>

\* complexity(string).
Parse ==
    /\ op = "parse" /\ pc = "parse"
    /\ \E r \in {complexity(string)} :
         result' = IF r.ok THEN Returned(Unwrap(r.val), <<>>) ELSE Failed(r.err)
    /\ pc' = "done"
    /\ UNCHANGED <<op, data, solverErr, builder, string, attempted, fitted>>

\* is_degraded on the candidate: the call returns Some(name) or None.
IsDegraded ==
    /\ op = "is_degraded" /\ pc = "is_degraded"
    /\ result' = Returned(is_degraded(builder.name, Unwrap(builder.params)), <<>>)
    /\ pc' = "done"
    /\ UNCHANGED <<op, data, solverErr, builder, string, attempted, fitted>>

\* is_valid on the candidate as a Complexity: the call returns a bool.
IsValid ==
    /\ op = "is_valid" /\ pc = "is_valid"
    /\ \E c \in {Unwrap(build(builder.name, builder.params).val)} :
         result' = Returned(is_valid(c), <<>>)
    /\ pc' = "done"
    /\ UNCHANGED <<op, data, solverErr, builder, string, attempted, fitted>>

\* delinearize on the line: the call returns the Params.
Delinearize ==
    /\ op = "delinearize" /\ pc = "delinearize"
    /\ \E line \in {Unwrap(builder.params)} :
         result' = Returned(delinearize(builder.name, Unwrap(line.gain), Unwrap(line.offset)),
                            <<>>)
    /\ pc' = "done"
    /\ UNCHANGED <<op, data, solverErr, builder, string, attempted, fitted>>

Next == FitStep \/ Finish \/ Build \/ Parse \/ IsDegraded \/ IsValid \/ Delinearize

Spec == Init /\ [][Next]_vars
SpecSolverErr == InitSolverErr /\ [][Next]_vars

(***************************** properties **********************************)
InferDone == op = "infer" /\ pc = "done"
InferOk == op = "infer" /\ result.kind = "ok"

Residual(c) == Unwrap(c.params.residuals)
CatalogIndex(name) == CHOOSE i \in 1..Len(all_names) : all_names[i] = name
NamesOf(s) == {s[i].name : i \in 1..Len(s)}

\* The fits made so far (attempted holds each model tried with what its fit
\* returned), and the models whose fit passed the validity filter.
AttemptedNames == [i \in 1..Len(attempted) |-> attempted[i].name]
ResultOf(name) == attempted[CatalogIndex(name)].res
FitOf(name) == Unwrap(ResultOf(name).val)
AllFitsOk ==
    /\ Len(attempted) = Len(all_names)
    /\ \A i \in 1..Len(attempted) : attempted[i].res.ok
Survivors ==
    {attempted[i].name : i \in {j \in 1..Len(attempted) :
        attempted[j].res.ok /\ is_valid(Unwrap(attempted[j].res.val))}}

\* C1: when infer_complexity succeeds, `all` is the survivors in order of
\* non-decreasing residual, survivors of equal residual are in catalog order
\* (whatever their rank), and `best` is the first element of `all`.
C1_SortedStableBestFirst ==
    InferOk =>
        /\ \A i \in 1..(Len(result.all) - 1) :
              \/ RLess(Residual(result.all[i]), Residual(result.all[i + 1]))
              \/ /\ Residual(result.all[i]) = Residual(result.all[i + 1])
                 /\ CatalogIndex(result.all[i].name) < CatalogIndex(result.all[i + 1].name)
        /\ NamesOf(result.all) = Survivors
        /\ Len(result.all) = Cardinality(Survivors)
        /\ \A i \in 1..Len(result.all) : result.all[i] = FitOf(result.all[i].name)
        /\ result.all # <<>>
        /\ result.best = Some(result.all[1])
        /\ \A i \in 1..Len(result.all) :
              ~RLess(Residual(result.all[i]), Residual(Unwrap(result.best)))

\* C1 witness: a successful call whose `all` holds two survivors of equal
\* residual, the later one of lower rank, and a survivor of larger residual.
C1_Witness ==
    /\ InferOk
    /\ \E i \in 1..(Len(result.all) - 1) :
          /\ Residual(result.all[i]) = Residual(result.all[i + 1])
          /\ result.all[i].rank > result.all[i + 1].rank
    /\ \E i \in 2..Len(result.all) :
          RLess(Residual(result.all[1]), Residual(result.all[i]))

\* An empty data set, or one whose every point is (0, 0).
EmptyOrZero(d) == d = <<>> \/ \A i \in 1..Len(d) : d[i] = <<Zero, Zero>>

\* C2: on an empty data set, or one whose every point is (0, 0), the call
\* never panics and ends with the error NoValidComplexity or InvalidInput;
\* no fit is collected, no model after the first is tried and no Complexity
\* is returned.
C2_EmptyOrZeroIsError ==
    (op = "infer" /\ EmptyOrZero(data)) =>
        /\ result.kind # "panic"
        /\ fitted = <<>>
        /\ Len(attempted) <= 1
        /\ pc # "sort"
        /\ pc = "done" =>
              /\ result.kind = "err"
              /\ result.err \in {"NoValidComplexity", "InvalidInput"}
              /\ result.best = None
              /\ result.all = <<>>

\* C2 witness: the call on several (0, 0) points has ended with an error.
C2_Witness ==
    /\ InferDone
    /\ Len(data) >= 2
    /\ EmptyOrZero(data)
    /\ result.kind = "err"

\* C3: when the eight fits all complete without an error and the validity
\* filter rejects every one of them, the call fails with NoValidComplexity:
\* it does not panic and returns no best Complexity.
C3_NoSurvivorIsNoValidComplexity ==
    (InferDone /\ AllFitsOk /\ Survivors = {}) =>
        /\ result.kind = "err"
        /\ result.err = "NoValidComplexity"

\* C4: every Complexity of `all`, and so `best`, has a finite residual, a
\* gain that is set and not negative, and is not degenerate; when every fit
\* completes and at least one survives, the call succeeds and `all` holds
\* exactly the survivors.
NotDegenerate(c) ==
    /\ c.name # "Constant" => ~RLe(RAbs(Unwrap(c.params.gain)), EPSILON)
    /\ c.name = "Polynomial" =>
          \A k \in 0..3 : ~RLe(RAbs(RSub(Unwrap(c.params.power), FromInt(k))), EPSILON)
    /\ c.name = "Exponential" =>
          \A k \in 0..1 : ~RLe(RAbs(RSub(Unwrap(c.params.base), FromInt(k))), EPSILON)

PassesFilter(c) ==
    /\ IsSome(c.params.residuals) /\ ~IsNaN(Residual(c))
    /\ IsSome(c.params.gain) /\ ~RLess(Unwrap(c.params.gain), Zero)
    /\ NotDegenerate(c)

C4_AllPassFilter ==
    /\ InferOk =>
          /\ \A i \in 1..Len(result.all) : PassesFilter(result.all[i])
          /\ \E i \in 1..Len(result.all) : result.best = Some(result.all[i])
    /\ (InferDone /\ AllFitsOk /\ \E name \in Names : PassesFilter(FitOf(name))) =>
          /\ result.kind = "ok"
          /\ NamesOf(result.all) = {name \in Names : PassesFilter(FitOf(name))}

\* C4 witness: a successful call in which one fit was left out of `all` for
\* its negative gain and another for its non-finite residual, while the
\* fits that remain all pass the filter.
C4_Witness ==
    /\ InferOk
    /\ \E name \in Names \ NamesOf(result.all) :
          /\ ~IsNaN(Residual(FitOf(name)))
          /\ RLess(Unwrap(FitOf(name).params.gain), Zero)
    /\ \E name \in Names \ NamesOf(result.all) : IsNaN(Residual(FitOf(name)))
    /\ \A i \in 1..Len(result.all) : PassesFilter(result.all[i])

\* C5: the models are fitted one after another in catalog order, and the
\* first fit that returns an error ends the call with that error: no later
\* model is fitted, the fits collected so far are dropped and no (best, all)
\* pair is returned; no error is passed over.
C5_FirstHardErrorAborts ==
    op = "infer" =>
        /\ AttemptedNames = SubSeq(all_names, 1, Len(attempted))
        /\ \A i \in 1..Len(attempted) :
              ~attempted[i].res.ok =>
                  /\ i = Len(attempted)
                  /\ result = Failed(attempted[i].res.err)
                  /\ fitted = <<>>
                  /\ pc = "done"
        /\ result.kind = "err" =>
              /\ attempted # <<>>
              /\ ~attempted[Len(attempted)].res.ok
              /\ result.best = None /\ result.all = <<>>
              /\ ~ENABLED Next

\* C5 witness: the solver failed on the fifth model or later, after a valid
\* fit had been collected, and the call has ended with LSTSQError.
C5_Witness ==
    /\ InferDone
    /\ result = Failed("LSTSQError")
    /\ Len(attempted) >= 5
    /\ Len(attempted) < Len(all_names)
    /\ \E i \in 1..(Len(attempted) - 1) : is_valid(Unwrap(attempted[i].res.val))

\* The tolerance of the recovered parameters.
Tolerance == Rat(1, 1000000)
Near(a, b) == RLe(RAbs(RSub(a, b)), Tolerance)

\* best is the model of the generated case c, with its notation and with the
\* generating coefficients (those that apply; an unset one reads as 0).
Recovered(c) ==
    /\ result.kind = "ok"
    /\ LET best == Unwrap(result.best)
       IN  /\ best.name = c.name
           /\ best.notation = notation(c.name)
           /\ Near(UnwrapOr(best.params.gain, Zero), c.a)
           /\ Near(UnwrapOr(best.params.offset, Zero),
                   IF c.name \in {"Polynomial", "Exponential"} THEN Zero ELSE c.b)
           /\ Near(UnwrapOr(best.params.power, Zero),
                   IF c.name = "Polynomial" THEN c.b ELSE Zero)
           /\ Near(UnwrapOr(best.params.base, Zero),
                   IF c.name = "Exponential" THEN c.b ELSE Zero)

\* The generated case is no degenerate instance of its model: its gain is
\* above EPSILON, a Polynomial power is not within EPSILON of 0, 1, 2 or 3
\* and an Exponential base is not within EPSILON of 0 or 1.
NotDegenerateCase(c) ==
    /\ c.name # "Constant" => RLess(EPSILON, c.a)
    /\ c.name = "Polynomial" => \A k \in 0..3 : ~RLe(RAbs(RSub(c.b, FromInt(k))), EPSILON)
    /\ c.name = "Exponential" => \A k \in 0..1 : ~RLe(RAbs(RSub(c.b, FromInt(k))), EPSILON)

ConstantData(d) ==
    /\ Len(d) >= 2
    /\ \E i, j \in 1..Len(d) : d[i][1] # d[j][1]
    /\ \A i \in 1..Len(d) : d[i][2] = d[1][2] /\ RLess(Zero, d[i][2])

\* C7: on constant data (y = offset > 0 at several distinct x), which is what
\* gain * x^2 + offset gives with gain = 0, infer_complexity returns Constant
\* as best with that offset; the Quadratic fit has a gain within EPSILON of 0
\* and is absent from `all`, as is every non-Constant model whose fitted gain
\* is within EPSILON of 0.
C7_ConstantDataGivesConstant ==
    (InferDone /\ ConstantData(data)) =>
        /\ AllFitsOk
        /\ result.kind = "ok"
        /\ Unwrap(result.best).name = "Constant"
        /\ Unwrap(result.best).notation = <<"O", "(", "1", ")">>
        /\ Near(Unwrap(Unwrap(result.best).params.offset), data[1][2])
        /\ RLe(RAbs(Unwrap(FitOf("Quadratic").params.gain)), EPSILON)
        /\ "Quadratic" \notin NamesOf(result.all)
        /\ \A name \in Names \ {"Constant"} :
              RLe(RAbs(Unwrap(FitOf(name).params.gain)), EPSILON) =>
                  name \notin NamesOf(result.all)

\* C7 witness: a finished call on three or more constant points, Constant
\* best and the zero-gain Quadratic fit left out.
C7_Witness ==
    /\ InferDone /\ ConstantData(data) /\ Len(data) >= 3
    /\ result.kind = "ok"
    /\ Unwrap(result.best).name = "Constant"
    /\ Unwrap(FitOf("Quadratic").params.gain) = Zero
    /\ "Quadratic" \notin NamesOf(result.all)

\* The generated cases gain * x^k with k in {1, 2, 3}: Linear, Quadratic and
\* Cubic with offset 0.
PowerOf(name) == CASE name = "Linear" -> 1 [] name = "Quadratic" -> 2 [] name = "Cubic" -> 3
PowerCases == {c \in GeneratedCases : c.name \in {"Linear", "Quadratic", "Cubic"} /\ c.b = Zero}

\* On the data of c the Polynomial fit has power near k and is absent from
\* `all`, and best is the class of c with the generating gain and offset 0.
PowerRecovered(c) ==
    /\ AllFitsOk
    /\ approx_eq(Unwrap(FitOf("Polynomial").params.power), FromInt(PowerOf(c.name)))
    /\ is_degraded("Polynomial", FitOf("Polynomial").params) # None
    /\ "Polynomial" \notin NamesOf(result.all)
    /\ result.kind = "ok"
    /\ Unwrap(result.best).name = c.name
    /\ Near(Unwrap(Unwrap(result.best).params.gain), c.a)
    /\ Near(Unwrap(Unwrap(result.best).params.offset), Zero)

\* C8 as stated: for data lying exactly on gain * x^k, gain > 0 and k in
\* {1, 2, 3}, whatever the number of points, the Polynomial fit has power
\* near k and is rejected, and best is Linear, Quadratic or Cubic with the
\* generating gain and offset 0.
C8_ExactPowerDataAnyLength ==
    InferDone => \A c \in PowerCases : data = c.data => PowerRecovered(c)

\* C8, amended: the same for data of three points or more (x = 1..n, n >= 3)
\* and a gain above EPSILON.
C8_ExactPowerDataThreePoints ==
    InferDone =>
        \A c \in PowerCases :
            (c.n >= 3 /\ RLess(EPSILON, c.a) /\ data = c.data) => PowerRecovered(c)

\* C8 witness: the call on (1, 1), (2, 4), (3, 9), (4, 16) has finished with
\* Quadratic as best and the Polynomial fit, of power 2, left out.
C8_Witness ==
    /\ InferDone
    /\ data = Generate("Quadratic", One, Zero, 4)
    /\ Unwrap(result.best).name = "Quadratic"
    /\ Unwrap(FitOf("Polynomial").params.power) = FromInt(2)
    /\ "Polynomial" \notin NamesOf(result.all)

\* Every Complexity the state holds: the one the builder returned, and each
\* one a fit returned.
Built ==
    (IF op = "build" /\ result.kind = "ok" THEN {Unwrap(result.best)} ELSE {})
        \cup {Unwrap(attempted[i].res.val) : i \in {j \in 1..Len(attempted) : attempted[j].res.ok}}

\* The rank the specification gives to each model with a fixed rank.
FixedRank(name) ==
    CASE name = "Constant" -> 0
      [] name = "Logarithmic" -> 130
      [] name = "Linear" -> 1000
      [] name = "Linearithmic" -> 1130
      [] name = "Quadratic" -> 2000
      [] name = "Cubic" -> 3000
      [] name = "Exponential" -> 1000000

Scaled(c) == RMul(FromInt(1000), Unwrap(c.params.power))
FinitePower(c) == IsSome(c.params.power) /\ ~IsNaN(Unwrap(c.params.power))

\* A Polynomial builder without a power fails with MissingPolynomialPower.
MissingPowerIsError ==
    (op = "build" /\ pc = "done" /\ builder.name = "Polynomial" /\ builder.params = None) =>
        result = Failed("MissingPolynomialPower")

\* C9 as stated: the fixed ranks, and for a Polynomial with a (finite) power
\* the rank is the number min(1000 * power, 1_000_000), for a fit and for
\* the builder alike.
C9_RankIsMinOfScaledPower ==
    /\ MissingPowerIsError
    /\ \A c \in Built :
          /\ c.name # "Polynomial" => c.rank = FixedRank(c.name)
          /\ (c.name = "Polynomial" /\ FinitePower(c)) =>
                FromInt(c.rank) = IF RLess(Scaled(c), FromInt(1000000)) THEN Scaled(c)
                                  ELSE FromInt(1000000)

\* C9, amended: the fixed ranks, and for a Polynomial with a finite power the
\* rank is 1000 * power cut down to a whole number and kept within
\* 0..1_000_000: 0 when the power is zero or negative, 1_000_000 from power
\* 1000 on, and otherwise the whole number r with r <= 1000 * power < r + 1.
C9_RankIsTruncatedScaledPower ==
    /\ MissingPowerIsError
    /\ \A c \in Built :
          /\ c.name # "Polynomial" => c.rank = FixedRank(c.name)
          /\ (c.name = "Polynomial" /\ FinitePower(c)) =>
                /\ c.rank \in 0..1000000
                /\ RLe(Scaled(c), Zero) => c.rank = 0
                /\ RLe(FromInt(1000000), Scaled(c)) => c.rank = 1000000
                /\ (RLess(Zero, Scaled(c)) /\ RLess(Scaled(c), FromInt(1000000))) =>
                      /\ RLe(FromInt(c.rank), Scaled(c))
                      /\ RLess(Scaled(c), FromInt(c.rank + 1))

\* C9 witness: the builder has returned a Polynomial whose 1000 * power is
\* no whole number, with the whole part as its rank.
C9_Witness ==
    /\ op = "build" /\ result.kind = "ok"
    /\ Unwrap(result.best).name = "Polynomial"
    /\ Unwrap(Unwrap(result.best).params.power) = Rat(3001, 3000)
    /\ Unwrap(result.best).rank = 1000

\* The rank of the baseline Complexity of a model with a fixed rank.
BaselineRank(name) == Unwrap(build(name, None).val).rank

\* The baseline ranks rise along Constant, Logarithmic, Linear, Linearithmic,
\* Quadratic, Cubic, Exponential.
BaselineChain ==
    /\ BaselineRank("Constant") < BaselineRank("Logarithmic")
    /\ BaselineRank("Logarithmic") < BaselineRank("Linear")
    /\ BaselineRank("Linear") < BaselineRank("Linearithmic")
    /\ BaselineRank("Linearithmic") < BaselineRank("Quadratic")
    /\ BaselineRank("Quadratic") < BaselineRank("Cubic")
    /\ BaselineRank("Cubic") < BaselineRank("Exponential")

\* The Polynomial the builder has returned, if it has.
BuiltPolynomial ==
    op = "build" /\ result.kind = "ok" /\ Unwrap(result.best).name = "Polynomial"

Between(lo, c, hi) == BaselineRank(lo) < c.rank /\ c.rank < BaselineRank(hi)
ScaledIn(c, lo, hi) == RLe(FromInt(lo), Scaled(c)) /\ RLess(Scaled(c), FromInt(hi))
PowerIn(c, lo, hi) ==
    RLess(FromInt(lo), Unwrap(c.params.power)) /\ RLess(Unwrap(c.params.power), FromInt(hi))

\* C10 as stated: the ranks rise strictly along Constant, Logarithmic,
\* Polynomial(p1), Linear, Linearithmic, Polynomial(p2), Quadratic,
\* Polynomial(p3), Cubic, Polynomial(p4), Exponential for all powers
\* 0 < p1 < 1, 1 < p2 < 2, 2 < p3 < 3 and p4 > 3.
C10_RankChainAllPowers ==
    /\ BaselineChain
    /\ BuiltPolynomial =>
          LET c == Unwrap(result.best)
          IN  /\ PowerIn(c, 0, 1) => Between("Logarithmic", c, "Linear")
              /\ PowerIn(c, 1, 2) => Between("Linearithmic", c, "Quadratic")
              /\ PowerIn(c, 2, 3) => Between("Quadratic", c, "Cubic")
              /\ RLess(FromInt(3), Unwrap(c.params.power)) => Between("Cubic", c, "Exponential")

\* C10, amended: the same chain for the powers whose 1000 * power lies in
\* 131 <= 1000 * p1 < 1000, 1131 <= 1000 * p2 < 2000, 2001 <= 1000 * p3 < 3000
\* and 3001 <= 1000 * p4 < 1_000_000.
C10_RankChainSeparatedPowers ==
    /\ BaselineChain
    /\ BuiltPolynomial =>
          LET c == Unwrap(result.best)
          IN  /\ ScaledIn(c, 131, 1000) => Between("Logarithmic", c, "Linear")
              /\ ScaledIn(c, 1131, 2000) => Between("Linearithmic", c, "Quadratic")
              /\ ScaledIn(c, 2001, 3000) => Between("Quadratic", c, "Cubic")
              /\ ScaledIn(c, 3001, 1000000) => Between("Cubic", c, "Exponential")

\* C10 witness: the builder has returned Polynomial(2999/3000), whose rank
\* lies between the ranks of Logarithmic and Linear.
C10_Witness ==
    /\ BuiltPolynomial
    /\ Unwrap(Unwrap(result.best).params.power) = Rat(2999, 3000)
    /\ Between("Logarithmic", Unwrap(result.best), "Linear")

\* The builder has returned, and no parameter had been given to it.
BuiltWithoutParams == op = "build" /\ pc = "done" /\ builder.params = None

\* C11: building a Polynomial whose power is not set fails with
\* MissingPolynomialPower and returns no Complexity; building any of the
\* seven other models without a parameter returns the Complexity of that
\* model, with its notation and no parameter set.
C11_MissingPowerFailsOthersBuild ==
    BuiltWithoutParams =>
        IF builder.name = "Polynomial"
        THEN /\ result.kind = "err"
             /\ result.err = "MissingPolynomialPower"
             /\ result.best = None
        ELSE /\ result.kind = "ok"
             /\ Unwrap(result.best).name = builder.name
             /\ Unwrap(result.best).notation = notation(builder.name)
             /\ Unwrap(result.best).params = ParamsNew
             /\ Unwrap(result.best).rank = FixedRank(builder.name)

\* C11 witness: the build of a Polynomial without a power has failed.
C11_Witness ==
    /\ BuiltWithoutParams /\ builder.name = "Polynomial"
    /\ result = Failed("MissingPolynomialPower")

ParseDone == op = "parse" /\ pc = "done"

\* The strings s and t are the same up to the case of their letters.
SameIgnoringCase(s, t) ==
    /\ Len(s) = Len(t)
    /\ \A i \in 1..Len(s) :
          \/ s[i] = t[i]
          \/ \E k \in 1..Len(UpperCase) : {s[i], t[i]} = {UpperCase[k], LowerCase[k]}

\* The error of a string that names no model.
ParseError == "Can't convert string to Name"

\* The call has returned the baseline Complexity of the model name.
ReturnedBaseline(name) ==
    /\ result.kind = "ok"
    /\ Unwrap(result.best).name = name
    /\ Unwrap(result.best).notation = notation(name)
    /\ Unwrap(result.best).params = ParamsNew
    /\ Unwrap(result.best).rank = FixedRank(name)

\* C12 as stated: complexity returns the baseline Complexity of the matching
\* model for each of the eight notation strings as written and for each of
\* the eight model names in any letter case, and fails with the parse error
\* for every other string.
C12_ParsesListedStrings ==
    ParseDone =>
        LET matching == {n \in Names : string = notation(n) \/ SameIgnoringCase(string, NameText(n))}
        IN  IF matching # {}
            THEN \A n \in matching : ReturnedBaseline(n)
            ELSE result.kind = "err" /\ result.err = ParseError

\* C12, amended: the notation strings are matched in any letter case too, and
\* the call returns the baseline Complexity of the matching model for each
\* model but Polynomial, for which it fails with MissingPolynomialPower; it
\* fails with the parse error for every other string.
C12_ParsesAnyCaseButPolynomial ==
    ParseDone =>
        LET matching == {n \in Names : \/ SameIgnoringCase(string, notation(n))
                                       \/ SameIgnoringCase(string, NameText(n))}
        IN  IF matching # {}
            THEN \A n \in matching :
                    IF n = "Polynomial"
                    THEN result = Failed("MissingPolynomialPower")
                    ELSE ReturnedBaseline(n)
            ELSE result = Failed(ParseError)

\* C12 witness: complexity("o(N log n)") has returned the baseline
\* Linearithmic.
C12_Witness ==
    /\ ParseDone
    /\ string = <<"o", "(", "N", " ", "l", "o", "g", " ", "n", ")">>
    /\ ReturnedBaseline("Linearithmic")

\* Parsing the notation of each model gives the model back, and no two
\* models have the same notation.
NotationParsesBack ==
    /\ \A n \in Names : try_from(notation(n)) = Ok(n)
    /\ \A n, m \in Names : notation(n) = notation(m) => n = m

\* The builder has returned the Complexity c.
BuilderReturned(c) == op = "build" /\ result.kind = "ok" /\ c = Unwrap(result.best)

\* complexity(c.notation) is a Complexity of the model of c.
RoundTrip(c) ==
    /\ complexity(c.notation).ok
    /\ Unwrap(complexity(c.notation).val).name = c.name

\* C13 as stated: parsing the notation produced for a model gives the same
\* model, the eight notations are pairwise distinct, and for any baseline
\* Complexity c, complexity(c.notation) has the model of c.
C13_RoundTripEveryBaseline ==
    /\ NotationParsesBack
    /\ \A c \in Built : BuilderReturned(c) => RoundTrip(c)

\* C13, amended: the same for every baseline Complexity of a model other
\* than Polynomial; for a Polynomial baseline the notation parses back to
\* Polynomial, and complexity(c.notation) fails with MissingPolynomialPower.
C13_RoundTripButPolynomial ==
    /\ NotationParsesBack
    /\ \A c \in Built :
          BuilderReturned(c) =>
              IF c.name = "Polynomial"
              THEN /\ try_from(c.notation) = Ok("Polynomial")
                   /\ complexity(c.notation) = Err("MissingPolynomialPower")
              ELSE RoundTrip(c)

\* C13 witness: the builder has returned the baseline Cubic, and
\* complexity of its notation is that Complexity again.
C13_Witness ==
    /\ op = "build" /\ result.kind = "ok" /\ builder = [name |-> "Cubic", params |-> None]
    /\ complexity(Unwrap(result.best).notation) = Ok(Unwrap(result.best))

\* The fields of Params, and those a fit of the model sets.
ParamFields == {"gain", "offset", "residuals", "power", "base"}
RelevantFields(name) ==
    CASE name = "Polynomial" -> {"gain", "power", "residuals"}
      [] name = "Exponential" -> {"gain", "base", "residuals"}
      [] OTHER -> {"gain", "offset", "residuals"}

\* C14: after a successful fit the params returned have exactly the fields
\* of the model set: gain, power, residuals for Polynomial; gain, base,
\* residuals for Exponential; gain, offset, residuals for the six others.
C14_ExactlyRelevantFieldsSet ==
    \A i \in 1..Len(attempted) :
        attempted[i].res.ok =>
            LET c == Unwrap(attempted[i].res.val)
            IN  /\ c.name = attempted[i].name
                /\ {f \in ParamFields : IsSome(c.params[f])} = RelevantFields(c.name)

\* C14 witness: all eight fits have succeeded on some data; the Polynomial
\* one has a power and no offset, the Exponential one a base and no power.
C14_Witness ==
    /\ AllFitsOk
    /\ IsSome(FitOf("Polynomial").params.power) /\ ~IsSome(FitOf("Polynomial").params.offset)
    /\ IsSome(FitOf("Exponential").params.base) /\ ~IsSome(FitOf("Exponential").params.power)
    /\ IsSome(FitOf("Linear").params.offset) /\ ~IsSome(FitOf("Linear").params.base)

\* a is within the tolerance 1e-5 of the whole number k.
Within(a, k) ==
    /\ RLe(RSub(FromInt(k), Rat(1, 100000)), a)
    /\ RLe(a, RAdd(FromInt(k), Rat(1, 100000)))

\* The parameters p are degenerate for the model name.
DegenerateFor(name, p) ==
    \/ name # "Constant" /\ IsSome(p.gain) /\ Within(Unwrap(p.gain), 0)
    \/ name = "Polynomial" /\ IsSome(p.power) /\ \E k \in 0..3 : Within(Unwrap(p.power), k)
    \/ name = "Exponential" /\ IsSome(p.base) /\ \E k \in 0..1 : Within(Unwrap(p.base), k)

\* is_valid has returned its verdict on the candidate.
IsValidDone == op = "is_valid" /\ pc = "done"
Candidate == Unwrap(builder.params)

\* C15: for a Complexity whose gain and residual are both set, the filter
\* rejects it if and only if the residual is not finite, or the gain is
\* negative, or the parameters are degenerate for its model; a Constant with
\* gain 0 and a finite residual is accepted, whatever its offset.
C15_RejectsIffOneConditionHolds ==
    (IsValidDone /\ IsSome(Candidate.gain) /\ IsSome(Candidate.residuals)) =>
        /\ Unwrap(result.best) \in BOOLEAN
        /\ ~Unwrap(result.best) <=>
              \/ IsNaN(Unwrap(Candidate.residuals))
              \/ RLess(Unwrap(Candidate.gain), Zero)
              \/ DegenerateFor(builder.name, Candidate)
        /\ (/\ builder.name = "Constant"
            /\ Unwrap(Candidate.gain) = Zero
            /\ ~IsNaN(Unwrap(Candidate.residuals))) => Unwrap(result.best)

\* C15 witness: is_valid has rejected a Polynomial with gain 1, a finite
\* residual and a power at 1e-5 from 1.
C15_Witness ==
    /\ IsValidDone /\ builder.name = "Polynomial"
    /\ Candidate.gain = Some(One) /\ Candidate.residuals = Some(Zero)
    /\ Candidate.power = Some(Rat(100001, 100000))
    /\ result.best = Some(FALSE)

\* is_degraded has returned its class for the candidate.
IsDegradedDone == op = "is_degraded" /\ pc = "done"
DegradedTo == Unwrap(result.best)

GainNearZero(name, p) == name # "Constant" /\ IsSome(p.gain) /\ Within(Unwrap(p.gain), 0)
PowerNear(name, p, k) == name = "Polynomial" /\ IsSome(p.power) /\ Within(Unwrap(p.power), k)
BaseNear(name, p, k) == name = "Exponential" /\ IsSome(p.base) /\ Within(Unwrap(p.base), k)
SimplerClass(k) == <<"Constant", "Linear", "Quadratic", "Cubic">>[k + 1]

\* C16 as stated, each sentence on its own, with tolerance 1e-5: a model
\* other than Constant with gain near 0 degenerates to Constant; Polynomial
\* with power near 0, 1, 2, 3 to Constant, Linear, Quadratic, Cubic;
\* Exponential with base near 0 or 1 to Constant; every other parameter set
\* (Constant with gain 0 among them) is not degenerate.
C16_ClassifiesBySentence ==
    IsDegradedDone =>
        /\ GainNearZero(builder.name, Candidate) => DegradedTo = Some("Constant")
        /\ \A k \in 0..3 :
              PowerNear(builder.name, Candidate, k) => DegradedTo = Some(SimplerClass(k))
        /\ \A k \in 0..1 :
              BaseNear(builder.name, Candidate, k) => DegradedTo = Some("Constant")
        /\ ~DegenerateFor(builder.name, Candidate) => DegradedTo = None

\* C16, amended: the same, the gain being looked at first: a Polynomial
\* with power near 1, 2 or 3 degenerates to Linear, Quadratic or Cubic when
\* its gain is unset or not near 0, and to Constant when its gain is near 0.
C16_ClassifiesGainFirst ==
    IsDegradedDone =>
        /\ GainNearZero(builder.name, Candidate) => DegradedTo = Some("Constant")
        /\ \A k \in 0..3 :
              (PowerNear(builder.name, Candidate, k) /\ ~GainNearZero(builder.name, Candidate))
                  => DegradedTo = Some(SimplerClass(k))
        /\ \A k \in 0..1 :
              BaseNear(builder.name, Candidate, k) => DegradedTo = Some("Constant")
        /\ ~DegenerateFor(builder.name, Candidate) => DegradedTo = None

\* C16 witness: is_degraded has returned Quadratic for a Polynomial with
\* gain 1 and a power at 1e-5 below 2.
C16_Witness ==
    /\ IsDegradedDone /\ builder.name = "Polynomial"
    /\ Candidate.gain = Some(One)
    /\ Candidate.power = Some(Rat(199999, 100000))
    /\ DegradedTo = Some("Quadratic")

\* delinearize has returned the Params for the line (gain_lin, offset_lin).
DelinearizeDone == op = "delinearize" /\ pc = "done"
gain_lin == Unwrap(Unwrap(builder.params).gain)
offset_lin == Unwrap(Unwrap(builder.params).offset)

\* C17: delinearize gives gain = exp(offset_lin) and power = gain_lin for
\* Polynomial, gain = exp(offset_lin) and base = exp(gain_lin) for
\* Exponential (stated with ln, the inverse of exp), and gain = gain_lin and
\* offset = offset_lin for the six other models; no other field is set.
C17_DelinearizeByModel ==
    DelinearizeDone =>
        LET p == Unwrap(result.best)
        IN  CASE builder.name = "Polynomial" ->
                   /\ IsSome(p.gain) /\ Ln(Unwrap(p.gain)) = offset_lin
                   /\ p.power = Some(gain_lin)
                   /\ p.offset = None /\ p.base = None /\ p.residuals = None
              [] builder.name = "Exponential" ->
                   /\ IsSome(p.gain) /\ Ln(Unwrap(p.gain)) = offset_lin
                   /\ IsSome(p.base) /\ Ln(Unwrap(p.base)) = gain_lin
                   /\ p.offset = None /\ p.power = None /\ p.residuals = None
              [] OTHER ->
                   /\ p.gain = Some(gain_lin)
                   /\ p.offset = Some(offset_lin)
                   /\ p.power = None /\ p.base = None /\ p.residuals = None

\* C17 witness: delinearize of the Exponential line with gain ln 3 and
\* offset ln 2 has returned gain 2 and base 3.
C17_Witness ==
    /\ DelinearizeDone /\ builder.name = "Exponential"
    /\ gain_lin = Ln(FromInt(3)) /\ offset_lin = Ln(FromInt(2))
    /\ Unwrap(result.best).gain = Some(FromInt(2))
    /\ Unwrap(result.best).base = Some(FromInt(3))

\* The sum over the points of data of |y - f(x)|, f the function of the
\* model of c with the parameters of c.
TrueResidual(c) ==
    LET a == Unwrap(c.params.gain)
        b == CASE c.name = "Polynomial" -> Unwrap(c.params.power)
               [] c.name = "Exponential" -> Unwrap(c.params.base)
               [] OTHER -> Unwrap(c.params.offset)
    IN  SumSeq([i \in 1..Len(data) |-> RAbs(RSub(data[i][2], F(c.name, a, b, data[i][1])))])

\* The residual the solver returns for the linearized points of the model.
SolverResidual(name) ==
    Unwrap(fit_line([i \in 1..Len(data) |-> linearize(name, data[i][1], data[i][2])],
                    FALSE).val)[3]

\* C18: the residual stored by a fit is the sum over the input points of
\* |y - f(x)|, f the model's function with the delinearized parameters, and
\* infer_complexity orders `all` by it.
C18_StoredResidualIsTrueResidual ==
    /\ \A i \in 1..Len(attempted) :
          attempted[i].res.ok =>
              \E c \in {Unwrap(attempted[i].res.val)} : c.params.residuals = Some(TrueResidual(c))
    /\ InferOk =>
          \A i \in 1..(Len(result.all) - 1) :
              RLe(TrueResidual(result.all[i]), TrueResidual(result.all[i + 1]))

\* C18 witness: a finished call in which the Linear fit stores a finite
\* residual above 0 that is not the one of the solver, and `all` has two
\* fits of different residuals.
C18_Witness ==
    /\ InferOk /\ AllFitsOk
    /\ RLess(Zero, Residual(FitOf("Linear")))
    /\ Residual(FitOf("Linear")) # SolverResidual("Linear")
    /\ ~IsNaN(SolverResidual("Linear"))
    /\ Len(result.all) >= 2
    /\ RLess(Residual(result.all[1]), Residual(result.all[Len(result.all)]))

\* The u values fit hands to fit_line for the model, and whether they make
\* the design matrix [u, 1] singular: fewer than two distinct u values.
LinearizedU(name) ==
    {linearize(name, data[i][1], data[i][2])[1] : i \in 1..Len(data)}
Singular(name) == Cardinality(LinearizedU(name)) < 2

\* C19 as stated: a fit whose input has fewer than two distinct u values
\* fails with the solver error.
C19_SingularInputIsSolverError ==
    op = "infer" =>
        \A i \in 1..Len(attempted) :
            (check_input(attempted[i].name, data).ok /\ Singular(attempted[i].name))
                => attempted[i].res = Err("LSTSQError")

\* C19: fit fails with the solver error exactly when the solver returns Err,
\* and infer_complexity then returns that error; fewer than two distinct u
\* values is no such case: the solver returns a line and the fit is Ok.
C19_SolverErrorOnlyFromSolver ==
    op = "infer" =>
        \A i \in 1..Len(attempted) :
            LET name == attempted[i].name
                res == attempted[i].res
            IN  check_input(name, data).ok =>
                    /\ name \in solverErr =>
                          /\ res = Err("LSTSQError")
                          /\ result = Failed("LSTSQError")
                    /\ name \notin solverErr => res.ok
                    /\ (Singular(name) /\ name \notin solverErr) =>
                          /\ res.ok
                          /\ IsSome(Unwrap(res.val).params.residuals)

\* C19 witness: on data whose u values are all equal for every model, the
\* Constant and the Logarithmic fit have succeeded and a later model, whose
\* solver failed, has ended the call with LSTSQError.
C19_Witness ==
    /\ op = "infer" /\ pc = "done"
    /\ result = Failed("LSTSQError")
    /\ Len(attempted) >= 3
    /\ \A i \in 1..Len(attempted) : Singular(attempted[i].name)
    /\ \A i \in 1..(Len(attempted) - 1) : attempted[i].res.ok
    /\ attempted[Len(attempted)].name \in solverErr

\* The data of the call: every y finite, and the mean of the y values.
FiniteY == \A i \in 1..Len(data) : ~IsNaN(data[i][2])
MeanY == RDiv(SumSeq([i \in 1..Len(data) |-> data[i][2]]), FromInt(Len(data)))

\* The Constant fit of the call has been made on data that check_input lets
\* through (not empty, not all zero).
ConstantFitted ==
    /\ op = "infer"
    /\ Len(attempted) >= 1
    /\ check_input("Constant", data).ok

\* The points the Constant fit hands to fit_line, and the offset it returns.
ConstantLinearized ==
    [i \in 1..Len(data) |-> linearize("Constant", data[i][1], data[i][2])]
ConstantFittedOffset == Unwrap(fit_line(ConstantLinearized, FALSE).val)[2]

\* The Constant fit linearized every point to (0, y), succeeded, and stored
\* gain = 0 and offset = the fitted offset (the mean of y), nothing else but
\* the residual.
ConstantFitAsStated ==
    /\ \A i \in 1..Len(data) : ConstantLinearized[i] = <<Zero, data[i][2]>>
    /\ ResultOf("Constant").ok
    /\ LET p == FitOf("Constant").params
       IN  /\ p.gain = Some(Zero)
           /\ p.offset = Some(ConstantFittedOffset)
           /\ p.offset = Some(MeanY)
           /\ p.power = None /\ p.base = None

\* C20 as stated: the Constant fit of every non-empty data set that is not
\* all zero succeeds with gain = 0 and offset = the fitted offset.
C20_ConstantFitOnAnyData ==
    ConstantFitted => ConstantFitAsStated

\* C20: the Constant fit of every non-empty data set that is not all zero
\* and whose y values are finite linearizes every point to (0, y), succeeds
\* and returns gain = 0 and offset = the fitted offset; with a y that is not
\* finite the fit still succeeds and linearizes the same way, but its gain
\* is not 0.
C20_ConstantFitOnFiniteData ==
    ConstantFitted =>
        /\ FiniteY => ConstantFitAsStated
        /\ ~FiniteY =>
              /\ \A i \in 1..Len(data) : ConstantLinearized[i] = <<Zero, data[i][2]>>
              /\ ResultOf("Constant").ok
              /\ IsNaN(Unwrap(FitOf("Constant").params.gain))

\* C20 witness: the Constant fit has been made on finite data whose y values
\* differ and grow with x, so that a line through (x, y) has a slope, and
\* its gain is 0 and its offset the mean, which is not 0.
C20_Witness ==
    /\ ConstantFitted /\ FiniteY
    /\ Len(data) >= 2
    /\ \E i, j \in 1..Len(data) :
          RLess(data[i][1], data[j][1]) /\ RLess(data[i][2], data[j][2])
    /\ FitOf("Constant").params.gain = Some(Zero)
    /\ FitOf("Constant").params.offset = Some(MeanY)
    /\ MeanY # Zero

\* The residual of the Complexity is set and finite.
ResidualSetAndFinite(c) ==
    /\ IsSome(c.params.residuals)
    /\ ~IsNaN(Unwrap(c.params.residuals))

\* C21: every Complexity that infer_complexity has pushed, and so every one
\* that reaches the sort, has a residual that is set and finite; any two of
\* them compare, the comparator's unwrap cannot panic, and a panic of the
\* call is never one of the sort: it happens only with nothing to sort.
C21_SortComparatorNeverFails ==
    op = "infer" =>
        /\ \A i \in 1..Len(fitted) : ResidualSetAndFinite(fitted[i])
        /\ \A i, j \in 1..Len(fitted) :
              compare(fitted[i], fitted[j]) \in {"lt", "eq", "gt"}
        /\ ~SortPanics(fitted)
        /\ result = Panicked => fitted = <<>>

\* C21 witness: the sort has run on two or more fits with different
\* residuals, after a fit whose residual is not finite had been made and
\* left out.
C21_Witness ==
    /\ op = "infer" /\ pc = "done"
    /\ result.kind = "ok"
    /\ Len(fitted) >= 2
    /\ \E i, j \in 1..Len(fitted) : compare(fitted[i], fitted[j]) = "lt"
    /\ \E i \in 1..Len(attempted) :
          /\ attempted[i].res.ok
          /\ ~ResidualSetAndFinite(Unwrap(attempted[i].res.val))

\* The Complexity is_valid was called on, and whether it is a baseline: the
\* Complexity that `complexity` returns for one of the sixteen spellings.
Validated == Unwrap(build(builder.name, builder.params).val)
IsBaseline(c) == \E s \in Spellings : complexity(s) = Ok(c)

\* C22: is_valid rejects a Complexity whose gain is not set and one whose
\* residual is not set, whatever its other parameters; so it rejects every
\* baseline Complexity, and every Complexity that `complexity` returns for
\* a string is one the filter rejects.
C22_UnsetGainOrResidualRejected ==
    /\ IsValidDone =>
          /\ Candidate.gain = None => result.best = Some(FALSE)
          /\ Candidate.residuals = None => result.best = Some(FALSE)
          /\ IsBaseline(Validated) => result.best = Some(FALSE)
    /\ (ParseDone /\ result.kind = "ok") => ~is_valid(Unwrap(result.best))

\* C22 witness: is_valid has rejected a Linear whose gain is not set, with a
\* finite residual and nothing degenerate.
C22_Witness ==
    /\ IsValidDone /\ builder.name = "Linear"
    /\ Candidate.gain = None
    /\ Candidate.residuals = Some(Zero)
    /\ ~DegenerateFor(builder.name, Candidate)
    /\ result.best = Some(FALSE)

\* C23: in every successful result of infer_complexity, `all` has between 1
\* and 8 elements, no two of them of the same model (nor, then, with the
\* same notation), each element's notation is the notation of its model,
\* and `best` is an element of `all`.
C23_ResultShape ==
    InferOk =>
        /\ Len(result.all) >= 1
        /\ Len(result.all) <= 8
        /\ Len(all_names) = 8
        /\ \A i, j \in 1..Len(result.all) :
              i # j => /\ result.all[i].name # result.all[j].name
                       /\ result.all[i].notation # result.all[j].notation
        /\ \A i \in 1..Len(result.all) :
              /\ result.all[i].name \in Names
              /\ result.all[i].notation = notation(result.all[i].name)
        /\ IsSome(result.best)
        /\ \E i \in 1..Len(result.all) : result.all[i] = Unwrap(result.best)

\* C23 witness: a successful call whose `all` holds three models or more
\* and whose best is not the first model fitted.
C23_Witness ==
    /\ InferOk /\ pc = "done"
    /\ Len(result.all) >= 3
    /\ Unwrap(result.best).name # "Constant"
    /\ Unwrap(result.best).notation = notation(Unwrap(result.best).name)
=============================================================================
